---- MODULE Spec2Model ----
(***************************************************************************)
(* Transcription job scheduler of Whisper-free:                            *)
(*   app/core/transcription_queue_manager.py  (queue, worker, facade)      *)
(*   app/data/database.py                     (job and chunk store)        *)
(* One worker thread runs _process_queue_loop; caller threads run          *)
(* submit_ptt_job, submit_file_job, cancel_job, retry_job and shutdown.    *)
(* Every access to state shared between threads is one step of the model.  *)
(***************************************************************************)
EXTENDS Naturals, Integers, Sequences, FiniteSets, TLC

(* ------------------------------ bounds -------------------------------- *)

\* jobs submitted in one run of the general scenario
MaxJobs == 2
\* jobs submitted in one run of the batch scenario (file jobs of one priority)
MaxBatch == 4
\* longest audio file, in chunks
MaxChunks == 2
\* caller threads inside a submit_* call at the same time
MaxCallers == 2
\* cancel_job calls in one run
MaxCancels == 1
\* engine / loader exceptions in one run
MaxFaults == 1
\* calls of retry_job in a run
MaxRetries == 1
\* process restarts in a run
MaxRestarts == 1
\* engine_calls counts calls per chunk up to this number
CallCap == 2

(* ------------------------- program constants -------------------------- *)

\* JobPriority
HIGH == 0
NORMAL == 1
LOW == 2

\* JobStatus (Enum auto(): numbered from 1)
PENDING == 1
RUNNING == 2
PAUSED == 3
COMPLETED == 4
FAILED == 5
CANCELLED == 6

SAMPLE_RATE == 16000
CHUNK_DURATION == 30
CHUNK_SIZE == CHUNK_DURATION * SAMPLE_RATE

Terminal == {COMPLETED, FAILED, CANCELLED}

(* ------------------------------ chunker ------------------------------- *)

\* the audio files a caller may submit: lengths in samples, the last chunk
\* of each shorter than CHUNK_SIZE
AudioLengths == {n * CHUNK_SIZE - (CHUNK_SIZE \div 2) : n \in 1..MaxChunks}
\* a file one window longer than those
LongAudio == (MaxChunks + 1) * CHUNK_SIZE - (CHUNK_SIZE \div 2)

\* len(chunks) after `for i in range(0, len(audio), CHUNK_SIZE)`
RECURSIVE CountChunks(_, _)
CountChunks(i, len) ==
    IF i >= len THEN 0 ELSE 1 + CountChunks(i + CHUNK_SIZE, len)

TotalChunks(len) == CountChunks(0, len)

(* --------------------- queue.PriorityQueue (heapq) -------------------- *)
\* The heap holds job ids; entry j stands for the tuple (priority value, job).
\* Positions are 0-based as in heapq; At/Put convert to the 1-based sequence.

At(heap, pos) == heap[pos + 1]
Put(heap, pos, item) == [heap EXCEPT ![pos + 1] = item]

\* TranscriptionJob.__lt__
JobLt(prio, a, b) == prio[a] < prio[b]

\* mutant: the comparison turned around
ItemLt_Reversed(prio, a, b) == prio[a] > prio[b]

\* (pa, a) < (pb, b) on tuples: the first differing component decides
ItemLt(prio, a, b) ==
    IF prio[a] # prio[b] THEN prio[a] < prio[b]
    ELSE IF a = b THEN FALSE
    ELSE JobLt(prio, a, b)

\* heapq._siftdown(heap, startpos, pos), newitem carried along
RECURSIVE SiftDownLoop(_, _, _, _, _)
SiftDownLoop(prio, heap, startpos, pos, newitem) ==
    IF pos > startpos
    THEN LET parentpos == (pos - 1) \div 2
             parent == At(heap, parentpos)
         IN IF ItemLt(prio, newitem, parent)
            THEN SiftDownLoop(prio, Put(heap, pos, parent), startpos, parentpos, newitem)
            ELSE Put(heap, pos, newitem)
    ELSE Put(heap, pos, newitem)

SiftDown(prio, heap, startpos, pos) ==
    SiftDownLoop(prio, heap, startpos, pos, At(heap, pos))

\* heapq._siftup(heap, pos): bubble the smaller child up to a leaf, then
\* sift the displaced item down
RECURSIVE SiftUpLoop(_, _, _, _, _)
SiftUpLoop(prio, heap, startpos, pos, newitem) ==
    LET endpos == Len(heap)
        childpos == 2 * pos + 1
        rightpos == childpos + 1
        pick == IF rightpos < endpos
                   /\ ~ItemLt(prio, At(heap, childpos), At(heap, rightpos))
                THEN rightpos ELSE childpos
    IN IF childpos < endpos
       THEN SiftUpLoop(prio, Put(heap, pos, At(heap, pick)), startpos, pick, newitem)
       ELSE SiftDown(prio, Put(heap, pos, newitem), startpos, pos)

SiftUp(prio, heap, pos) == SiftUpLoop(prio, heap, pos, pos, At(heap, pos))

\* mutant: a plain FIFO queue, the new entry is not sifted into place
HeapPush_NoSift(prio, heap, item) == Append(heap, item)

\* PriorityQueue.put -> heappush
HeapPush(prio, heap, item) ==
    SiftDown(prio, Append(heap, item), 0, Len(heap))

\* PriorityQueue.get -> heappop: the item returned
HeapTop(heap) == heap[1]

\* PriorityQueue.get -> heappop: the heap left behind
HeapPop(prio, heap) ==
    LET lastelt == heap[Len(heap)]
        rest == SubSeq(heap, 1, Len(heap) - 1)
    IN IF rest = <<>> THEN rest
       ELSE SiftUp(prio, Put(rest, 0, lastelt), 0)

(* ------------------------------ job store ----------------------------- *)
\* db_jobs: job id -> row of transcription_jobs; db_chunks: rows of
\* transcription_chunks.  A chunk's text is the chunk index it was made from.

\* DatabaseManager.add_transcription_job (INSERT with the column defaults)
add_transcription_job(rows, id, priority, status, has_file) ==
    [j \in DOMAIN rows \cup {id} |->
        IF j = id
        THEN [priority |-> priority, status |-> status, has_file |-> has_file,
              total_chunks |-> 1, completed_chunks |-> 0,
              current_chunk_index |-> 0, result_text |-> <<>>,
              error_message |-> "", completed_at |-> FALSE]
        ELSE rows[j]]

\* update_transcription_job: `elif status in [3, 4, 5]` stamps completed_at
StampsCompletedAt(fields) ==
    "status" \in DOMAIN fields /\ fields.status \in {3, 4, 5}

\* DatabaseManager.update_transcription_job: UPDATE ... WHERE id = ?
\* (no row, no change); `fields` holds the columns that were passed;
\* completed_at (is it set) is written along with a status 3, 4 or 5
update_transcription_job(rows, id, fields) ==
    IF id \in DOMAIN rows
    THEN [rows EXCEPT ![id] =
            [c \in DOMAIN rows[id] |->
                IF c \in DOMAIN fields THEN fields[c]
                ELSE IF c = "completed_at" /\ StampsCompletedAt(fields)
                THEN TRUE
                ELSE rows[id][c]]]
    ELSE rows

\* DatabaseManager.cleanup_old_jobs: SELECT id ... WHERE status IN (3, 4, 5)
\* AND completed_at < cutoff, for a cutoff later than every completed_at
\* written so far (NULL is not selected)
CleanupSelected(rows) ==
    {id \in DOMAIN rows : rows[id].status \in {3, 4, 5}
                            /\ rows[id].completed_at}

\* DatabaseManager.add_transcription_chunk: INSERT OR REPLACE under
\* UNIQUE(job_id, chunk_index) and FOREIGN KEY (job_id) with foreign_keys = ON;
\* a missing job row raises, and the caller logs and goes on
add_transcription_chunk_NoReplace(chunks, rows, id, idx, text) ==
    IF id \in DOMAIN rows
    THEN chunks \cup {[job_id |-> id, chunk_index |-> idx, text |-> text]}
    ELSE chunks
add_transcription_chunk(chunks, rows, id, idx, text) ==
    IF id \in DOMAIN rows
    THEN {c \in chunks : ~(c.job_id = id /\ c.chunk_index = idx)}
            \cup {[job_id |-> id, chunk_index |-> idx, text |-> text]}
    ELSE chunks

\* UNIQUE(job_id, chunk_index): a record with this key is in the table
HasChunk(chunks, id, idx) ==
    \E c \in chunks : c.job_id = id /\ c.chunk_index = idx

\* ORDER BY chunk_index ASC: the records of a set as a list, lowest index first
RECURSIVE OrderChunks(_)
OrderChunks(cs) ==
    IF cs = {} THEN <<>>
    ELSE LET first == CHOOSE a \in cs :
                          \A b \in cs : a.chunk_index <= b.chunk_index
         IN  <<first>> \o OrderChunks(cs \ {first})

\* DatabaseManager.get_job_chunks: SELECT ... WHERE job_id = ?
\* ORDER BY chunk_index ASC, returned as a list of records
get_job_chunks(chunks, id) == OrderChunks({c \in chunks : c.job_id = id})

\* DatabaseManager.get_pending_jobs: SELECT ... WHERE status IN (0, 2)
\* ORDER BY priority ASC, created_at ASC (rows are created in id order)
RECURSIVE OrderRows(_, _)
OrderRows(rows, ids) ==
    IF ids = {} THEN <<>>
    ELSE LET first == CHOOSE a \in ids : \A b \in ids :
                          \/ rows[a].priority < rows[b].priority
                          \/ rows[a].priority = rows[b].priority /\ a <= b
         IN <<first>> \o OrderRows(rows, ids \ {first})

get_pending_jobs(rows) ==
    OrderRows(rows, {id \in DOMAIN rows : rows[id].status \in {0, 2}})

(* --------------------------- StateMachine ----------------------------- *)

\* ApplicationState
IDLE == "idle"
RECORDING == "recording"
PROCESSING == "processing"
COMPLETED_STATE == "completed"
ERROR == "error"
ApplicationState == {IDLE, RECORDING, PROCESSING, COMPLETED_STATE, ERROR}

\* StateMachine.VALID_TRANSITIONS
VALID_TRANSITIONS_ProcessingCancel ==
    [s \in ApplicationState |->
        CASE s = IDLE -> {RECORDING, ERROR}
          [] s = RECORDING -> {PROCESSING, IDLE, ERROR}
          [] s = PROCESSING -> {COMPLETED_STATE, IDLE, ERROR}
          [] s = COMPLETED_STATE -> {IDLE, ERROR}
          [] s = ERROR -> {IDLE}]
VALID_TRANSITIONS ==
    [s \in ApplicationState |->
        CASE s = IDLE -> {RECORDING, ERROR}
          [] s = RECORDING -> {PROCESSING, IDLE, ERROR}
          [] s = PROCESSING -> {COMPLETED_STATE, ERROR}
          [] s = COMPLETED_STATE -> {IDLE, ERROR}
          [] s = ERROR -> {IDLE}]

\* StateMachine.can_transition_to, evaluated in state `current`
can_transition_to(current, new_state) ==
    IF new_state = ERROR THEN TRUE
    ELSE new_state \in VALID_TRANSITIONS[current]

\* StateMachine.is_busy
is_busy(current) == current \in {RECORDING, PROCESSING}

\* threads that call the StateMachine
MaxThreads == 2
Threads == 1..MaxThreads

\* a thread outside any call; op, new_state, has_message and ret are those of
\* the call it is in
ThreadIdle == [pc |-> "idle", op |-> "none", new_state |-> IDLE,
               has_message |-> FALSE, ret |-> "none"]

(* ------------------------------- state -------------------------------- *)

VARIABLES
    cfg,            \* [scenario, has_db]: what the callers do, db_manager given
    session_base,   \* job objects made by earlier processes (gone at their exit)
    restore_pending,\* _restore_pending_jobs: the rows still to go through
    jobs,           \* TranscriptionJob objects, by job id (creation order)
    submit_pc,      \* per job: where its submit_* call stands
    job_queue,      \* PriorityQueue: the heap array, of job ids
    current_job,    \* self.current_job (0: None)
    model_lock,     \* self.model_lock is held
    pause_event,    \* self.pause_event is set
    stop_event,     \* self.stop_event is set
    db_jobs,        \* transcription_jobs
    db_chunks,      \* transcription_chunks
    w,              \* the worker thread: pc and locals of _process_queue_loop
    engine_busy,    \* calls of whisper.transcribe in progress
    signals,        \* Qt signals emitted so far: <<name, job id>>
    used,           \* [cancels, faults, retries, restarts] spent so far
    engine_calls,   \* history: per job, per chunk, calls of whisper.transcribe
    queue_order,    \* history: the queued job ids in order of put
    high_at_pause,  \* history: per job, the HIGH jobs queued when it last paused
    yield_owed,     \* history: submit_ptt_job calls made during this job's processing
    cancel_returned,\* history: jobs for which cancel_job returned while in process
    cancel_observed,\* history: jobs whose cancellation the worker saw at a boundary
    cancel_queued,  \* history: jobs for which cancel_job returned before their first dequeue
    origin,         \* history: per job, the row it was re-submitted from, and by what
    raised,         \* history: jobs during which the engine or the loader raised
    rewritten,      \* history: <<job id, chunk index>> stored again over a record
    current_state,  \* StateMachine._current_state
    th,             \* per thread using the StateMachine: its call and last result
    last_progress,  \* per job: the percentage of its latest job_progress event
    audio,          \* _transcribe_file: len(audio), the samples loaded
    chunk_list      \* _transcribe_file: the list `chunks` built so far

vars == <<cfg, session_base, restore_pending, jobs, submit_pc, job_queue, current_job, model_lock, pause_event,
          stop_event, db_jobs, db_chunks, w, engine_busy, signals, used, engine_calls,
          queue_order, high_at_pause, yield_owed, cancel_returned, cancel_observed,
          cancel_queued, origin, raised, rewritten, current_state, th,
          last_progress, audio, chunk_list>>

chunkerVars == <<audio, chunk_list>>

machineVars == <<current_state, th>>
bootVars == <<session_base, restore_pending>>
callerVars == <<jobs, submit_pc>>
storeVars == <<db_jobs, db_chunks>>
auditVars == <<cancel_queued, origin, raised>>
histVars == <<engine_calls, queue_order, high_at_pause, yield_owed,
              cancel_returned, cancel_observed, auditVars>>

\* the job objects of the running process
JobIds == (session_base + 1)..Len(jobs)
Prio == [j \in JobIds |-> jobs[j].priority]
Queued == {job_queue[i] : i \in 1..Len(job_queue)}
IsFile(j) == ~jobs[j].is_ptt
\* the worker has taken a job from the queue and is not done with it
Processing == w.pc \notin {"get", "clear_current", "stopped"}

\* TranscriptionJob(...) as built by submit_ptt_job / submit_file_job
NewJob(is_ptt, priority, audio_len) ==
    [is_ptt |-> is_ptt, priority |-> priority, status |-> PENDING,
     audio_len |-> audio_len, current_chunk_index |-> 0,
     result_text |-> <<>>, error_message |-> ""]

WorkerIdle ==
    [pc |-> "get", job |-> 0, chunk_idx |-> 0, total_chunks |-> 0,
     all_text_parts |-> <<>>, error |-> ""]

\* the state after DatabaseManager() and TranscriptionQueueManager()
Constructed ==
    /\ session_base = 0
    /\ restore_pending = <<>>
    /\ jobs = <<>>
    /\ submit_pc = <<>>
    /\ job_queue = <<>>
    /\ current_job = 0
    /\ model_lock = FALSE
    /\ pause_event = TRUE
    /\ stop_event = FALSE
    /\ db_jobs = <<>>
    /\ db_chunks = {}
    /\ w = WorkerIdle
    /\ engine_busy = 0
    /\ signals = {}
    /\ used = [cancels |-> 0, faults |-> 0, retries |-> 0, restarts |-> 0]
    /\ engine_calls = <<>>
    /\ queue_order = <<>>
    /\ high_at_pause = <<>>
    /\ yield_owed = {}
    /\ cancel_returned = {}
    /\ cancel_observed = {}
    /\ cancel_queued = {}
    /\ origin = <<>>
    /\ raised = {}
    /\ rewritten = {}
    /\ last_progress = <<>>
    /\ current_state = IDLE
    /\ th = [t \in Threads |-> ThreadIdle]
    /\ audio = 0
    /\ chunk_list = <<>>

Init ==
    /\ cfg \in [scenario : {"general", "disturbed", "retry", "lifecycle", "long",
                           "batch", "sweep"},
               has_db : BOOLEAN]
    /\ Constructed

(* ------------------------------ callers ------------------------------- *)

\* submit_* calls that have not returned yet
InCall == {j \in JobIds : submit_pc[j] # "done"}

\* What the callers do in a run, by cfg.scenario:
\*   "general"   up to MaxJobs submissions of any kind, up to MaxCallers of
\*               them in progress at once; nobody cancels, nothing raises
\*   "disturbed" one push-to-talk and one file submission at most, one call
\*               at a time; callers cancel, the engine and the loader raise
\*   "retry"     one file submission; the engine and the loader raise,
\*               callers call retry_job
\*   "lifecycle" one file submission; callers shut the manager down, the
\*               process exits and a new one starts on the same store
\*   "batch"     submit_batch_jobs: up to MaxBatch one-chunk files, all LOW
\*   "sweep"     one push-to-talk and one file submission at most, one call
\*               at a time; callers run cleanup_old_jobs on the store
\*   "long"      one push-to-talk and one file submission at most, one call
\*               at a time; the file is LongAudio
CanSubmit(is_ptt) ==
    \/ /\ cfg.scenario = "general"
       /\ Len(jobs) < MaxJobs
       /\ Cardinality(InCall) < MaxCallers
    \/ /\ cfg.scenario \in {"disturbed", "sweep", "long"}
       /\ InCall = {}
       /\ \A j \in JobIds : jobs[j].is_ptt # is_ptt
    \/ /\ cfg.scenario \in {"retry", "lifecycle"}
       /\ ~is_ptt
       /\ jobs = <<>>
       /\ restore_pending = <<>>
    \/ /\ cfg.scenario = "batch"
       /\ ~is_ptt
       /\ Len(jobs) < MaxBatch
       /\ InCall = {}

SubmittedLengths == IF cfg.scenario = "long" THEN {LongAudio} ELSE AudioLengths

NoOrigin == [row |-> 0, by |-> "caller"]

\* the job object is built and put on the queue (the first statements of
\* submit_ptt_job and submit_file_job)
Enqueue(job, next_pc, from) ==
    LET id == Len(jobs) + 1 IN
    /\ jobs' = Append(jobs, job)
    /\ submit_pc' = Append(submit_pc, next_pc)
    /\ job_queue' = HeapPush([j \in 1..id |-> jobs'[j].priority], job_queue, id)
    /\ queue_order' = Append(queue_order, id)
    /\ engine_calls' = Append(engine_calls, [i \in 0..MaxChunks |-> 0])
    /\ high_at_pause' = Append(high_at_pause, {})
    /\ origin' = Append(origin, from)

\* submit_ptt_job, up to self.job_queue.put
submit_ptt_job ==
    /\ CanSubmit(TRUE)
    /\ Enqueue(NewJob(TRUE, HIGH, 0), "signal", NoOrigin)
    /\ yield_owed' = IF Processing /\ IsFile(w.job)
                     THEN yield_owed \cup {Len(jobs) + 1} ELSE yield_owed
    /\ UNCHANGED <<cfg, chunkerVars, last_progress, machineVars, rewritten, bootVars, stop_event, current_job, model_lock, pause_event, storeVars, w,
                   engine_busy, signals, used, cancel_returned, cancel_observed,
                   cancel_queued, raised>>

\* submit_ptt_job: with self.current_job_lock: clear pause_event if a
\* non-HIGH job is the current job
PauseSignal(cur) ==
    IF cur # 0 /\ jobs[cur].priority > HIGH THEN FALSE ELSE pause_event

submit_ptt_job_signal(j) ==
    /\ submit_pc[j] = "signal"
    /\ pause_event' = PauseSignal(current_job)
    /\ submit_pc' = [submit_pc EXCEPT ![j] = "persist"]
    /\ UNCHANGED <<cfg, chunkerVars, last_progress, machineVars, rewritten, bootVars, stop_event, jobs, job_queue, current_job, model_lock, storeVars, w,
                   engine_busy, signals, used, histVars>>

\* submit_file_job, up to self.job_queue.put; submit_batch_jobs calls it with
\* priority LOW for each path
submit_file_job(priority, audio_len) ==
    /\ CanSubmit(FALSE)
    /\ IF cfg.scenario = "batch"
       THEN priority = LOW /\ TotalChunks(audio_len) = 1
       ELSE TotalChunks(audio_len) = IF cfg.scenario = "long" THEN MaxChunks + 1
                                     ELSE MaxChunks
    /\ Enqueue(NewJob(FALSE, priority, audio_len), "persist", NoOrigin)
    /\ UNCHANGED <<cfg, chunkerVars, last_progress, machineVars, rewritten, bootVars, stop_event, current_job, model_lock, pause_event, storeVars, w,
                   engine_busy, signals, used, yield_owed, cancel_returned,
                   cancel_observed, cancel_queued, raised>>

\* the end of submit_ptt_job and submit_file_job: if self.db:
\* add_transcription_job(status=job.status.value, ...), then return
submit_persist(j) ==
    /\ submit_pc[j] = "persist"
    /\ submit_pc' = [submit_pc EXCEPT ![j] = "done"]
    /\ db_jobs' = IF cfg.has_db
                  THEN add_transcription_job(db_jobs, j, jobs[j].priority,
                                             jobs[j].status, IsFile(j))
                  ELSE db_jobs
    /\ UNCHANGED <<cfg, chunkerVars, last_progress, machineVars, rewritten, bootVars, stop_event, jobs, job_queue, current_job, model_lock, pause_event,
                   db_chunks, w, engine_busy, signals, used, histVars>>

\* cancel_job(job_id): acts on the current job only
cancel_job(id) ==
    /\ cfg.scenario = "disturbed"
    /\ used.cancels < MaxCancels
    /\ InCall = {}
    /\ id \in Queued \/ current_job = id \/ (Processing /\ w.job = id)
    /\ used' = [used EXCEPT !.cancels = @ + 1]
    /\ IF current_job = id
       THEN /\ jobs' = [jobs EXCEPT ![id].status = CANCELLED]
            /\ signals' = signals \cup {<<"job_cancelled", id>>}
       ELSE UNCHANGED <<jobs, signals>>
    /\ cancel_returned' = IF Processing /\ w.job = id
                          THEN cancel_returned \cup {id} ELSE cancel_returned
    /\ cancel_queued' = IF id \in Queued /\ jobs[id].status = PENDING
                        THEN cancel_queued \cup {id} ELSE cancel_queued
    /\ UNCHANGED <<cfg, chunkerVars, last_progress, machineVars, rewritten, bootVars, stop_event, submit_pc, job_queue, current_job, model_lock,
                   pause_event, storeVars, w, engine_busy, engine_calls,
                   queue_order, high_at_pause, yield_owed, cancel_observed,
                   origin, raised>>

\* mutant: retry_job without the check of the row's status
RetryApplies_AnyStatus(rows, id) == id \in DOMAIN rows

\* retry_job: a store is attached (checked by the caller of this operator),
\* get_transcription_job finds the row, and its status is FAILED
RetryApplies(rows, id) ==
    id \in DOMAIN rows /\ rows[id].status = FAILED

\* retry_job(job_id): for a FAILED row the row is reset to PENDING and the
\* file is submitted again, as a new job; otherwise the call returns.
\* id 0 is an id no job has; rows of push-to-talk jobs are not retried here.
retry_job(id) ==
    /\ cfg.scenario = "retry"
    /\ used.retries < MaxRetries
    /\ InCall = {}
    /\ restore_pending = <<>>
    /\ id \in DOMAIN db_jobs => db_jobs[id].has_file
    /\ used' = [used EXCEPT !.retries = @ + 1]
    /\ IF cfg.has_db /\ RetryApplies(db_jobs, id)
       THEN /\ db_jobs' = update_transcription_job(db_jobs, id,
                             [status |-> PENDING, current_chunk_index |-> 0,
                              error_message |-> ""])
            /\ Enqueue(NewJob(FALSE, db_jobs[id].priority,
                               jobs[id].audio_len),
                       "persist", [row |-> id, by |-> "retry"])
       ELSE UNCHANGED <<db_jobs, callerVars, job_queue, queue_order,
                        engine_calls, high_at_pause, origin>>
    /\ UNCHANGED <<cfg, chunkerVars, last_progress, machineVars, rewritten, bootVars, stop_event, current_job, model_lock,
                   pause_event, db_chunks, w, engine_busy, signals, yield_owed,
                   cancel_returned, cancel_observed, cancel_queued, raised>>

\* shutdown(): self.stop_event.set(); join(timeout=5.0) returns either way
shutdown ==
    /\ cfg.scenario = "lifecycle"
    /\ InCall = {}
    /\ restore_pending = <<>>
    /\ ~stop_event
    /\ stop_event' = TRUE
    /\ UNCHANGED <<cfg, chunkerVars, last_progress, machineVars, rewritten, bootVars, callerVars, job_queue, current_job, model_lock,
                   pause_event, storeVars, w, engine_busy, signals, used,
                   histVars>>

\* where the worker spends its time: waiting for the queue, stopped, waiting
\* on pause_event at a chunk boundary, or inside the engine
ExitPoints == {"get", "stopped", "boundary", "engine"}

\* The process exits (its daemon worker thread with it) while the worker is
\* at one of ExitPoints, and a new process constructs a
\* TranscriptionQueueManager on the same store: __init__ up to the call of
\* _restore_pending_jobs, which reads get_pending_jobs()
restart ==
    /\ cfg.scenario = "lifecycle"
    /\ used.restarts < MaxRestarts
    /\ InCall = {}
    /\ w.pc \in ExitPoints
    /\ restore_pending = <<>>
    /\ used' = [used EXCEPT !.restarts = @ + 1]
    /\ session_base' = Len(jobs)
    /\ restore_pending' = IF cfg.has_db THEN get_pending_jobs(db_jobs) ELSE <<>>
    /\ job_queue' = <<>>
    /\ queue_order' = <<>>
    /\ current_job' = 0
    /\ model_lock' = FALSE
    /\ pause_event' = TRUE
    /\ stop_event' = FALSE
    /\ w' = WorkerIdle
    /\ engine_busy' = 0
    /\ yield_owed' = {}
    \* the objects of the old process are gone: what is kept of a job is the
    \* file it named; signals and call counts start afresh
    /\ jobs' = [j \in 1..Len(jobs) |->
                    NewJob(jobs[j].is_ptt, jobs[j].priority, jobs[j].audio_len)]
    /\ signals' = {}
    /\ engine_calls' = [j \in 1..Len(jobs) |-> [i \in 0..MaxChunks |-> 0]]
    /\ high_at_pause' = [j \in 1..Len(jobs) |-> {}]
    /\ UNCHANGED <<cfg, chunkerVars, last_progress, machineVars, rewritten, submit_pc, storeVars, cancel_returned, cancel_observed,
                   auditVars>>

\* _restore_pending_jobs, one turn of its loop: rows without file_path are
\* passed over, the others go to submit_file_job
restore_pending_job ==
    /\ restore_pending # <<>>
    /\ InCall = {}
    /\ restore_pending' = Tail(restore_pending)
    /\ LET id == Head(restore_pending) IN
       IF db_jobs[id].has_file
       THEN Enqueue(NewJob(FALSE, db_jobs[id].priority, jobs[id].audio_len),
                    "persist", [row |-> id, by |-> "restore"])
       ELSE UNCHANGED <<callerVars, job_queue, queue_order, engine_calls,
                        high_at_pause, origin>>
    /\ UNCHANGED <<cfg, chunkerVars, last_progress, machineVars, rewritten, session_base, stop_event, current_job, model_lock,
                   pause_event, storeVars, w, engine_busy, signals, used,
                   yield_owed, cancel_returned, cancel_observed, cancel_queued,
                   raised>>

(* --------------------- worker: _process_queue_loop -------------------- *)

\* while not self.stop_event.is_set(): where the loop goes after an iteration
LoopTop == IF stop_event THEN "stopped" ELSE "get"

\* get timed out on an empty queue and the loop condition ended the loop
process_queue_loop_stop ==
    /\ w.pc = "get"
    /\ job_queue = <<>>
    /\ stop_event
    /\ w' = [w EXCEPT !.pc = "stopped"]
    /\ UNCHANGED <<cfg, chunkerVars, last_progress, machineVars, rewritten, bootVars, stop_event, callerVars, job_queue, current_job,
                   model_lock, pause_event, storeVars, engine_busy, signals,
                   used, histVars>>

Emit(name, id) == signals \cup {<<name, id>>}

Remove(seq, x) == SelectSeq(seq, LAMBDA y : y # x)

CountCall(id, idx) ==
    [engine_calls EXCEPT ![id][idx] = IF @ < CallCap THEN @ + 1 ELSE @]

\* an exception the engine or the loader may raise now
MayFail ==
    cfg.scenario \in {"disturbed", "retry"} /\ used.faults < MaxFaults

\* priority_value, job = self.job_queue.get(timeout=1.0); Empty: try again
process_queue_loop_get ==
    /\ w.pc = "get"
    /\ job_queue # <<>>
    /\ w' = [w EXCEPT !.pc = "skip_check", !.job = HeapTop(job_queue)]
    /\ job_queue' = HeapPop(Prio, job_queue)
    /\ queue_order' = Remove(queue_order, HeapTop(job_queue))
    /\ UNCHANGED <<cfg, chunkerVars, last_progress, machineVars, rewritten, bootVars, stop_event, callerVars, current_job, model_lock, pause_event,
                   storeVars, engine_busy, signals, used, engine_calls,
                   high_at_pause, yield_owed, cancel_returned, cancel_observed, auditVars>>

\* if job.status == JobStatus.CANCELLED: task_done(); continue
process_queue_loop_skip_check ==
    /\ w.pc = "skip_check"
    /\ IF jobs[w.job].status = CANCELLED
       THEN w' = [w EXCEPT !.pc = LoopTop] /\ yield_owed' = {}
       ELSE w' = [w EXCEPT !.pc = "set_current"] /\ UNCHANGED yield_owed
    /\ UNCHANGED <<cfg, chunkerVars, last_progress, machineVars, rewritten, bootVars, stop_event, callerVars, job_queue, current_job, model_lock,
                   pause_event, storeVars, engine_busy, signals, used,
                   engine_calls, queue_order, high_at_pause, cancel_returned,
                   cancel_observed, auditVars>>

\* with self.current_job_lock: self.current_job = job
process_queue_loop_set_current ==
    /\ w.pc = "set_current"
    /\ current_job' = w.job
    /\ w' = [w EXCEPT !.pc = "begin"]
    /\ UNCHANGED <<cfg, chunkerVars, last_progress, machineVars, rewritten, bootVars, stop_event, callerVars, job_queue, model_lock, pause_event,
                   storeVars, engine_busy, signals, used, histVars>>

\* mutant: _process_job called without taking model_lock
LockAcquired_NotTaken == FALSE

\* with self.model_lock: the lock is held inside the block
LockAcquired == TRUE

\* mutant: the lock stays held when the block is left by JobPausedException
LockAfterExit_HeldOnPause(outcome) == outcome = "paused"

\* with self.model_lock: leaving the block releases the lock, whether
\* _process_job returned after completing, pausing, failing or a cancel
LockAfterExit(outcome) == FALSE

\* _process_job: job.status = JobStatus.RUNNING
process_job_begin ==
    /\ w.pc = "begin"
    /\ ~model_lock
    /\ model_lock' = LockAcquired
    /\ jobs' = [jobs EXCEPT ![w.job].status = RUNNING]
    /\ w' = [w EXCEPT !.pc = "persist_running"]
    /\ UNCHANGED <<cfg, chunkerVars, last_progress, machineVars, rewritten, bootVars, stop_event, submit_pc, job_queue, current_job, pause_event,
                   storeVars, engine_busy, signals, used, histVars>>

\* _transcribe_file: start_chunk_index = job.current_chunk_index, or the
\* number of chunk rows of the job when that is 0 and a store is attached
StartChunkIndex(id) ==
    LET existing_chunks == get_job_chunks(db_chunks, id) IN
    IF jobs[id].current_chunk_index = 0 /\ cfg.has_db /\ existing_chunks # <<>>
    THEN Len(existing_chunks)
    ELSE jobs[id].current_chunk_index

LoopOrFinish(idx, total) == IF idx < total THEN "boundary" ELSE "finish"

\* mutant: in-memory audio is sent down the file path
UsesTranscribeAudio_Never(job) == FALSE

\* _process_job: `if job.audio_data is not None` picks _transcribe_audio
UsesTranscribeAudio(job) == job.is_ptt

\* _process_job: persist RUNNING, emit job_started, then _transcribe_audio
\* enters the engine, or _transcribe_file loads and splits the audio
process_job_start ==
    /\ w.pc = "persist_running"
    /\ db_jobs' = update_transcription_job(db_jobs, w.job,
                                           [status |-> jobs[w.job].status])
    /\ signals' = Emit("job_started", w.job)
    /\ IF UsesTranscribeAudio(jobs[w.job])
       THEN /\ w' = [w EXCEPT !.pc = "engine", !.chunk_idx = 0,
                              !.total_chunks = 1, !.all_text_parts = <<>>]
            /\ engine_busy' = engine_busy + 1
            /\ engine_calls' = CountCall(w.job, 0)
            /\ UNCHANGED <<used, raised>>
       ELSE /\ UNCHANGED <<engine_busy, engine_calls>>
            /\ \/ /\ MayFail
                  /\ used' = [used EXCEPT !.faults = @ + 1]
                  /\ raised' = raised \cup {w.job}
                  /\ w' = [w EXCEPT !.pc = "fail", !.error = "cannot load"]
               \/ /\ UNCHANGED <<used, raised>>
                  /\ LET total == TotalChunks(jobs[w.job].audio_len)
                         start == StartChunkIndex(w.job)
                     IN w' = [w EXCEPT !.pc = LoopOrFinish(start, total),
                                       !.chunk_idx = start,
                                       !.total_chunks = total,
                                       !.all_text_parts = <<>>]
    /\ UNCHANGED <<cfg, chunkerVars, last_progress, machineVars, rewritten, bootVars, stop_event, callerVars, job_queue, current_job, model_lock,
                   pause_event, db_chunks, queue_order, high_at_pause,
                   yield_owed, cancel_returned, cancel_observed,
                   cancel_queued, origin>>

\* the status a preempted job is given
PauseStatus == PAUSED

\* _transcribe_file, top of the chunk loop:
\* if not self.pause_event.wait(timeout=0.1): job.status = JobStatus.PAUSED
transcribe_file_boundary ==
    /\ w.pc = "boundary"
    /\ IF ~pause_event
       THEN /\ jobs' = [jobs EXCEPT ![w.job].status = PauseStatus]
            /\ w' = [w EXCEPT !.pc = "pause_persist"]
            /\ high_at_pause' = [high_at_pause EXCEPT ![w.job] =
                                    {q \in Queued : jobs[q].priority = HIGH}]
       ELSE /\ w' = [w EXCEPT !.pc = "cancel_check"]
            /\ UNCHANGED <<jobs, high_at_pause>>
    /\ UNCHANGED <<cfg, chunkerVars, last_progress, machineVars, rewritten, bootVars, stop_event, submit_pc, job_queue, current_job, model_lock,
                   pause_event, storeVars, engine_busy, signals, used,
                   engine_calls, queue_order, yield_owed, cancel_returned,
                   cancel_observed, auditVars>>

\* update_transcription_job(status, current_chunk_index=chunk_idx);
\* job_paused.emit
transcribe_file_pause_persist ==
    /\ w.pc = "pause_persist"
    /\ db_jobs' = update_transcription_job(db_jobs, w.job,
                     [status |-> jobs[w.job].status,
                      current_chunk_index |-> w.chunk_idx])
    /\ signals' = Emit("job_paused", w.job)
    /\ w' = [w EXCEPT !.pc = "requeue"]
    /\ UNCHANGED <<cfg, chunkerVars, last_progress, machineVars, rewritten, bootVars, stop_event, callerVars, job_queue, current_job, model_lock,
                   pause_event, db_chunks, engine_busy, used, histVars>>

\* mutant: JobPausedException handled by the generic 'except Exception'
OnJobPaused_AsError == "fail"

\* except JobPausedException: log and return, nothing else
OnJobPaused == "clear_current"

\* self.job_queue.put((job.priority.value, job)); raise JobPausedException,
\* which _process_job swallows; the with block releases model_lock
transcribe_file_requeue ==
    /\ w.pc = "requeue"
    /\ job_queue' = HeapPush(Prio, job_queue, w.job)
    /\ queue_order' = Append(queue_order, w.job)
    /\ model_lock' = LockAfterExit("paused")
    /\ w' = [w EXCEPT !.pc = OnJobPaused]
    /\ UNCHANGED <<cfg, chunkerVars, last_progress, machineVars, rewritten, bootVars, stop_event, callerVars, current_job, pause_event, storeVars,
                   engine_busy, signals, used, engine_calls, high_at_pause,
                   yield_owed, cancel_returned, cancel_observed, auditVars>>

\* if job.status == JobStatus.CANCELLED: raise RuntimeError("Job cancelled");
\* else whisper.transcribe(chunk['audio'], ...) is entered
transcribe_file_cancel_check ==
    /\ w.pc = "cancel_check"
    /\ IF jobs[w.job].status = CANCELLED
       THEN /\ w' = [w EXCEPT !.pc = "fail", !.error = "Job cancelled"]
            /\ cancel_observed' = cancel_observed \cup {w.job}
            /\ UNCHANGED <<engine_busy, engine_calls>>
       ELSE /\ w' = [w EXCEPT !.pc = "engine"]
            /\ engine_busy' = engine_busy + 1
            /\ engine_calls' = CountCall(w.job, w.chunk_idx)
            /\ UNCHANGED cancel_observed
    /\ UNCHANGED <<cfg, chunkerVars, last_progress, machineVars, rewritten, bootVars, stop_event, callerVars, job_queue, current_job, model_lock,
                   pause_event, storeVars, signals, used, queue_order,
                   high_at_pause, yield_owed, cancel_returned, auditVars>>

\* whisper.transcribe returns (the text of the buffer it was given) or raises
engine_return ==
    /\ w.pc = "engine"
    /\ engine_busy' = engine_busy - 1
    /\ \/ /\ MayFail
          /\ used' = [used EXCEPT !.faults = @ + 1]
          /\ raised' = raised \cup {w.job}
          /\ w' = [w EXCEPT !.pc = "fail", !.error = "engine error"]
       \/ /\ UNCHANGED <<used, raised>>
          /\ w' = [w EXCEPT !.all_text_parts = Append(@, w.chunk_idx),
                            !.pc = IF jobs[w.job].is_ptt THEN "finish"
                                   ELSE "save_chunk"]
    /\ UNCHANGED <<cfg, chunkerVars, last_progress, machineVars, rewritten, bootVars, stop_event, callerVars, job_queue, current_job, model_lock,
                   pause_event, storeVars, signals, engine_calls, queue_order,
                   high_at_pause, yield_owed, cancel_returned, cancel_observed,
                   cancel_queued, origin>>

\* if self.db: add_transcription_chunk(job.id, chunk_idx, chunk_text, ...)
transcribe_file_save_chunk ==
    /\ w.pc = "save_chunk"
    /\ rewritten' = IF cfg.has_db /\ w.job \in DOMAIN db_jobs
                       /\ HasChunk(db_chunks, w.job, w.chunk_idx)
                    THEN rewritten \cup {<<w.job, w.chunk_idx>>}
                    ELSE rewritten
    /\ db_chunks' = IF cfg.has_db
                    THEN add_transcription_chunk(db_chunks, db_jobs, w.job,
                                                 w.chunk_idx, w.chunk_idx)
                    ELSE db_chunks
    /\ w' = [w EXCEPT !.pc = "progress"]
    /\ UNCHANGED <<cfg, chunkerVars, last_progress, machineVars, bootVars, stop_event, callerVars, job_queue, current_job, model_lock,
                   pause_event, db_jobs, engine_busy, signals, used, histVars>>

\* progress = int((chunk_idx + 1) / total_chunks * 100)
Progress(chunk_idx, total_chunks) == ((chunk_idx + 1) * 100) \div total_chunks

\* update_transcription_job(completed_chunks=chunk_idx + 1,
\* current_chunk_index=chunk_idx + 1); job_progress.emit; next chunk
transcribe_file_progress ==
    /\ w.pc = "progress"
    /\ db_jobs' = update_transcription_job(db_jobs, w.job,
                     [completed_chunks |-> w.chunk_idx + 1,
                      current_chunk_index |-> w.chunk_idx + 1])
    /\ signals' = Emit("job_progress", w.job)
    /\ last_progress' = [j \in DOMAIN last_progress \cup {w.job} |->
                            IF j = w.job
                            THEN Progress(w.chunk_idx, w.total_chunks)
                            ELSE last_progress[j]]
    /\ w' = [w EXCEPT !.chunk_idx = @ + 1,
                      !.pc = LoopOrFinish(w.chunk_idx + 1, w.total_chunks)]
    /\ UNCHANGED <<cfg, chunkerVars, machineVars, rewritten, bootVars, stop_event, callerVars, job_queue, current_job, model_lock,
                   pause_event, db_chunks, engine_busy, used, histVars>>

\* _process_job after the transcription: job.result_text = result['text']
\* (' '.join(all_text_parts)); if job.status != CANCELLED: COMPLETED
process_job_finish ==
    /\ w.pc = "finish"
    /\ IF jobs[w.job].status # CANCELLED
       THEN /\ jobs' = [jobs EXCEPT ![w.job].result_text = w.all_text_parts,
                                    ![w.job].status = COMPLETED]
            /\ w' = [w EXCEPT !.pc = "persist_completed"]
            /\ UNCHANGED model_lock
       ELSE /\ jobs' = [jobs EXCEPT ![w.job].result_text = w.all_text_parts]
            /\ w' = [w EXCEPT !.pc = "clear_current"]
            /\ model_lock' = LockAfterExit("cancelled")
    /\ UNCHANGED <<cfg, chunkerVars, last_progress, machineVars, rewritten, bootVars, stop_event, submit_pc, job_queue, current_job, pause_event,
                   storeVars, engine_busy, signals, used, histVars>>

\* update_transcription_job(status, result_text); job_completed.emit
process_job_persist_completed ==
    /\ w.pc = "persist_completed"
    /\ db_jobs' = update_transcription_job(db_jobs, w.job,
                     [status |-> jobs[w.job].status,
                      result_text |-> jobs[w.job].result_text])
    /\ signals' = Emit("job_completed", w.job)
    /\ model_lock' = LockAfterExit("completed")
    /\ w' = [w EXCEPT !.pc = "clear_current"]
    /\ UNCHANGED <<cfg, chunkerVars, last_progress, machineVars, rewritten, bootVars, stop_event, callerVars, job_queue, current_job, pause_event,
                   db_chunks, engine_busy, used, histVars>>

\* except Exception as e: job.status = FAILED; job.error_message = str(e)
process_job_fail ==
    /\ w.pc = "fail"
    /\ jobs' = [jobs EXCEPT ![w.job].status = FAILED,
                            ![w.job].error_message = w.error]
    /\ w' = [w EXCEPT !.pc = "persist_failed"]
    /\ UNCHANGED <<cfg, chunkerVars, last_progress, machineVars, rewritten, bootVars, stop_event, submit_pc, job_queue, current_job, model_lock,
                   pause_event, storeVars, engine_busy, signals, used, histVars>>

\* update_transcription_job(status, error_message); job_failed.emit
process_job_persist_failed ==
    /\ w.pc = "persist_failed"
    /\ db_jobs' = update_transcription_job(db_jobs, w.job,
                     [status |-> jobs[w.job].status,
                      error_message |-> jobs[w.job].error_message])
    /\ signals' = Emit("job_failed", w.job)
    /\ model_lock' = LockAfterExit("failed")
    /\ w' = [w EXCEPT !.pc = "clear_current"]
    /\ UNCHANGED <<cfg, chunkerVars, last_progress, machineVars, rewritten, bootVars, stop_event, callerVars, job_queue, current_job, pause_event,
                   db_chunks, engine_busy, used, histVars>>

\* An exception leaves _process_job from inside its failure handler (the
\* statements after the store update: job_failed.emit, job.on_error); the
\* with block releases model_lock on the way out
process_job_handler_raises ==
    /\ w.pc = "persist_failed"
    /\ cfg.scenario = "retry"
    /\ db_jobs' = update_transcription_job(db_jobs, w.job,
                     [status |-> jobs[w.job].status,
                      error_message |-> jobs[w.job].error_message])
    /\ signals' = Emit("job_failed", w.job)
    /\ model_lock' = LockAfterExit("raised")
    /\ w' = [w EXCEPT !.pc = "loop_error"]
    /\ UNCHANGED <<cfg, chunkerVars, last_progress, machineVars, rewritten, bootVars, stop_event, callerVars,
                   job_queue, current_job, pause_event, db_chunks, engine_busy,
                   used, histVars>>

\* mutant: the exception ends the worker thread
AfterLoopError_Terminates == "stopped"

\* the except clause is inside the while loop: the loop goes on
AfterLoopError == LoopTop

\* _process_queue_loop, except Exception: if job: job.status = FAILED;
\* job.error_message = f"Queue error: ..."; job_failed.emit.  The rest of the
\* iteration (current_job = None, pause_event.set, task_done) is skipped.
process_queue_loop_error ==
    /\ w.pc = "loop_error"
    /\ jobs' = [jobs EXCEPT ![w.job].status = FAILED,
                            ![w.job].error_message = "Queue error"]
    /\ signals' = Emit("job_failed", w.job)
    /\ yield_owed' = {}
    /\ w' = [w EXCEPT !.pc = AfterLoopError, !.chunk_idx = 0,
                      !.total_chunks = 0, !.all_text_parts = <<>>,
                      !.error = ""]
    /\ UNCHANGED <<cfg, chunkerVars, last_progress, machineVars, rewritten, bootVars, stop_event, submit_pc,
                   job_queue, current_job, model_lock, pause_event, storeVars,
                   engine_busy, used, engine_calls, queue_order, high_at_pause,
                   cancel_returned, cancel_observed, auditVars>>

\* self.current_job = None; if job.priority == HIGH: self.pause_event.set()
process_queue_loop_clear_current ==
    /\ w.pc = "clear_current"
    /\ current_job' = 0
    /\ pause_event' = IF jobs[w.job].priority = HIGH THEN TRUE ELSE pause_event
    /\ yield_owed' = {}
    /\ w' = [w EXCEPT !.pc = LoopTop, !.chunk_idx = 0, !.total_chunks = 0,
                      !.all_text_parts = <<>>, !.error = ""]
    /\ UNCHANGED <<cfg, chunkerVars, last_progress, machineVars, rewritten, bootVars, stop_event, callerVars, job_queue, model_lock, storeVars,
                   engine_busy, signals, used, engine_calls, queue_order,
                   high_at_pause, cancel_returned, cancel_observed, auditVars>>

\* DatabaseManager.cleanup_old_jobs(days), called when every completed_at
\* in the table is older than the cutoff: the selected rows and their chunks
\* are deleted
cleanup_old_jobs ==
    /\ cfg.scenario = "sweep"
    /\ cfg.has_db
    /\ InCall = {}
    /\ CleanupSelected(db_jobs) # {}
    /\ LET job_ids == CleanupSelected(db_jobs) IN
       /\ db_chunks' = {c \in db_chunks : c.job_id \notin job_ids}
       /\ db_jobs' = [id \in DOMAIN db_jobs \ job_ids |-> db_jobs[id]]
    /\ UNCHANGED <<cfg, chunkerVars, last_progress, machineVars, rewritten, bootVars, stop_event,
                   callerVars, job_queue, current_job, model_lock, pause_event,
                   w, engine_busy, signals, used, histVars>>

(* --------------------------- specification ---------------------------- *)

Caller ==
    \/ submit_ptt_job
    \/ \E j \in JobIds : submit_ptt_job_signal(j)
    \/ \E p \in {NORMAL, LOW}, len \in SubmittedLengths : submit_file_job(p, len)
    \/ \E j \in JobIds : submit_persist(j)
    \/ \E j \in JobIds : cancel_job(j)
    \/ \E id \in 0..Len(jobs) : retry_job(id)
    \/ shutdown
    \/ restart
    \/ restore_pending_job
    \/ cleanup_old_jobs

Worker ==
    \/ process_queue_loop_get
    \/ process_queue_loop_stop
    \/ process_queue_loop_skip_check
    \/ process_queue_loop_set_current
    \/ process_job_begin
    \/ process_job_start
    \/ transcribe_file_boundary
    \/ transcribe_file_pause_persist
    \/ transcribe_file_requeue
    \/ transcribe_file_cancel_check
    \/ engine_return
    \/ transcribe_file_save_chunk
    \/ transcribe_file_progress
    \/ process_job_finish
    \/ process_job_persist_completed
    \/ process_job_fail
    \/ process_job_persist_failed
    \/ process_job_handler_raises
    \/ process_queue_loop_error
    \/ process_queue_loop_clear_current

Next == Caller \/ Worker

Spec == Init /\ [][Next]_vars

\* a started submit_* call runs to its return
CallerReturn ==
    \/ \E j \in JobIds : submit_ptt_job_signal(j)
    \/ \E j \in JobIds : submit_persist(j)
    \/ restore_pending_job

\* Every thread that can take a step eventually takes one: the threads are
\* scheduled fairly, and the worker polls the queue and pause_event with
\* timeouts, so it never blocks for good.  No caller is obliged to submit
\* or to cancel.
FairSpec == Spec /\ WF_vars(Worker) /\ WF_vars(CallerReturn)

(* ------------------------------- claims ------------------------------- *)

\* steps of the worker the claims speak about
Dequeue == w.pc = "get" /\ w'.pc = "skip_check"
BoundaryPass == w.pc = "boundary" /\ w'.pc = "cancel_check"
ChunkCallBegins == w.pc = "cancel_check" /\ w'.pc = "engine"
\* queued, and the submit call that queued it has returned
Waiting == {j \in Queued : submit_pc[j] = "done"}
DoneWith(j) == ~(Processing /\ w.job = j)
ExpectedText(j) ==
    [i \in 1..TotalChunks(jobs[j].audio_len) |-> i - 1]

\* C1: at most one job has status RUNNING, at most one call of the engine's
\* transcribe is in progress, and a call in progress is the worker's, made
\* while it holds model_lock.
C1_Exclusivity ==
    /\ Cardinality({j \in JobIds : jobs[j].status = RUNNING}) <= 1
    /\ engine_busy <= 1
    /\ engine_busy > 0 => model_lock /\ w.pc = "engine"

C1_Witness ==
    /\ engine_busy = 1
    /\ job_queue # <<>>
    /\ jobs[w.job].status = RUNNING

\* C2: once a submit_ptt_job call made while the worker was handling a file
\* job (from the dequeue on) has returned, that job passes no further chunk
\* boundary: it starts no chunk beyond the one in flight.
C2_YieldsAfterPtt ==
    [][BoundaryPass => \A p \in yield_owed : submit_pc[p] # "done"]_vars

\* C3: with a Job Store attached, a COMPLETED file job has had each of its
\* chunks 0..N-1 sent to the engine exactly once, however often it paused.
C3_EachChunkOnce ==
    \A j \in JobIds :
        cfg.has_db /\ IsFile(j) /\ jobs[j].status = COMPLETED
            => \A i \in 0..(TotalChunks(jobs[j].audio_len) - 1) :
                    engine_calls[j][i] = 1

\* C4: the result_text of a COMPLETED file job is the texts of all its N
\* chunks in chunk-index order, paused and resumed or not.
C4_ResultIsAllChunks ==
    \A j \in JobIds :
        IsFile(j) /\ jobs[j].status = COMPLETED
            => jobs[j].result_text = ExpectedText(j)

\* C5: jobs of equal priority are dequeued in the order they were enqueued:
\* the job the worker takes precedes, in order of put, every job of its
\* priority still queued.
Precedes(a, b) ==
    \E i, k \in 1..Len(queue_order) :
        i < k /\ queue_order[i] = a /\ queue_order[k] = b

C5_FifoWithinPriority ==
    [][Dequeue =>
        \A k \in Queued \ {w'.job} :
            jobs[k].priority = jobs[w'.job].priority => Precedes(w'.job, k)]_vars

\* C6 (original): while a more urgent job is waiting in the queue the worker
\* neither takes a less urgent job nor lets the job it is processing pass a
\* chunk boundary, for any pair of priorities.
C6_NoLessUrgentWork ==
    [][Dequeue \/ BoundaryPass =>
        \A k \in Waiting \ {w'.job} :
            jobs[k].priority >= jobs[w'.job].priority]_vars

\* C6 (amended): the job the worker takes from the queue has the smallest
\* priority value of all queued jobs; waiting jobs stop the chunks of the job
\* in process only through pause_event, which only submit_ptt_job clears.
C6_DequeueMostUrgent ==
    [][Dequeue =>
        \A k \in Queued \ {w'.job} :
            jobs[k].priority >= jobs[w'.job].priority]_vars

C6_Witness ==
    /\ w.pc = "skip_check"
    /\ \E k \in Queued : jobs[k].priority > jobs[w.job].priority

\* C7: a job that paused while HIGH jobs were queued is not RUNNING again
\* before each of those HIGH jobs has a terminal status.
C7_HighBeforeResume ==
    \A j \in JobIds :
        jobs[j].status = RUNNING
            => \A h \in high_at_pause[j] : jobs[h].status \in Terminal

C7_Witness ==
    \E j \in JobIds :
        /\ jobs[j].status = RUNNING
        /\ high_at_pause[j] # {}
        /\ w.job = j /\ w.pc = "boundary"

\* C11: a job for which cancel_job returned while it was waiting in the
\* queue, never dequeued, is CANCELLED from then on and no engine call is ever
\* made for it.
C11_QueuedCancelSticks ==
    \A j \in cancel_queued :
        /\ jobs[j].status = CANCELLED
        /\ \A i \in DOMAIN engine_calls[j] : engine_calls[j][i] = 0

\* C8: every submitted job eventually has a terminal status (no shutdown, no
\* exit of the process, every engine call returns, all threads keep running).
C8_EveryJobEnds ==
    \A j \in 1..MaxJobs :
        (j \in JobIds)
            ~> \/ j \in JobIds /\ jobs[j].status \in Terminal
               \/ stop_event
               \/ used.restarts > 0

\* C9: a job whose cancellation the worker saw at a chunk boundary ends
\* CANCELLED, with no error_message and no job_failed signal.
C9_CancelledNotFailed ==
    \A j \in cancel_observed :
        DoneWith(j)
            => /\ jobs[j].status = CANCELLED
               /\ jobs[j].error_message = ""
               /\ <<"job_failed", j>> \notin signals

\* C10: after cancel_job(id) has returned for the job the worker is
\* processing, no further engine call is begun for that job.
C10_NoCallAfterCancel ==
    [][ChunkCallBegins => w.job \notin cancel_returned]_vars

\* C12: a job whose status is COMPLETED, FAILED or CANCELLED keeps that status
\* in every later step.
C12_TerminalIsFinal ==
    [][\A j \in JobIds :
          jobs[j].status \in Terminal => jobs'[j].status = jobs[j].status]_vars

\* C13: a job during which the engine or the loader raised is, once the
\* worker is done with it, FAILED with a non-empty error_message and a
\* job_failed signal, and the worker is free for the next job (model_lock
\* released, no current job left behind).
C13_FailureIsContained ==
    \A j \in raised \cap JobIds :
        DoneWith(j)
            => /\ jobs[j].status = FAILED
               /\ jobs[j].error_message # ""
               /\ <<"job_failed", j>> \in signals
               /\ ~Processing => ~model_lock

\* the step that starts a new process on the store
Restarts == used'.restarts > used.restarts
ToSeqSet(seq) == {seq[i] : i \in 1..Len(seq)}

\* C14: the rows a new scheduler goes on to re-enqueue are exactly the rows
\* with status PENDING or PAUSED and a file path.
C14_RestoresPendingAndPaused ==
    [][Restarts /\ cfg.has_db =>
        {r \in ToSeqSet(restore_pending') : db_jobs[r].has_file}
            = {r \in DOMAIN db_jobs : /\ db_jobs[r].status \in {PENDING, PAUSED}
                                      /\ db_jobs[r].has_file}]_vars

\* C15: for a job re-enqueued at startup, no chunk that is stored for the row
\* it was restored from is sent to the engine again.
C15_RestoredSkipsStoredChunks ==
    \A j \in JobIds :
        origin[j].by = "restore"
            => \A c \in ToSeqSet(get_job_chunks(db_chunks, origin[j].row)) :
                    engine_calls[j][c.chunk_index] = 0

\* C16: when the job that retry_job(id) enqueued has ended, the record of id
\* has a terminal status too (it is that job's record).
C16_RetriedRecordEnds ==
    \A j \in JobIds :
        origin[j].by = "retry" /\ jobs[j].status \in Terminal /\ DoneWith(j)
            => db_jobs[origin[j].row].status \in Terminal

\* the step of a retry_job call
Retries == used'.retries > used.retries

\* C17: a retry_job call either changes no record and enqueues nothing, or
\* it was made with a store attached for a row whose status was FAILED; and a
\* new process never re-enqueues a FAILED row.
C17_RetryOnlyFailed ==
    [][/\ Retries =>
            \/ UNCHANGED <<db_jobs, jobs, job_queue>>
            \/ /\ cfg.has_db
               /\ Len(jobs') = Len(jobs) + 1
               /\ origin'[Len(jobs')].by = "retry"
               /\ origin'[Len(jobs')].row \in DOMAIN db_jobs
               /\ db_jobs[origin'[Len(jobs')].row].status = FAILED
       /\ Restarts =>
            \A r \in ToSeqSet(restore_pending') : db_jobs[r].status # FAILED]_vars

C17_Witness ==
    /\ used.retries > 0
    /\ db_jobs # <<>>
    /\ \A j \in 1..Len(jobs) : origin[j].by # "retry"

\* C18: while the stop signal is set the worker takes no job from the queue.
C18_NoDequeueAfterStop ==
    [][Dequeue => ~stop_event]_vars

(* --------------------------- the chunk store --------------------------- *)

\* DatabaseManager used on its own, as test_features.py does: job rows are
\* added, and add_transcription_chunk is called with any job id, any chunk
\* index and any text, in any order
MaxStoreJobs == 1
ChunkTexts == 0..1

store_add_job ==
    /\ cfg.scenario = "store"
    /\ Len(db_jobs) < MaxStoreJobs
    /\ db_jobs' = add_transcription_job(db_jobs, Len(db_jobs) + 1, NORMAL,
                                        PENDING, TRUE)
    /\ UNCHANGED <<cfg, chunkerVars, last_progress, machineVars, rewritten, bootVars, stop_event, callerVars, job_queue,
                   current_job, model_lock, pause_event, db_chunks, w,
                   engine_busy, signals, used, histVars>>

store_add_chunk(id, idx, text) ==
    /\ cfg.scenario = "store"
    /\ db_chunks' = add_transcription_chunk(db_chunks, db_jobs, id, idx, text)
    /\ rewritten' = IF id \in DOMAIN db_jobs /\ HasChunk(db_chunks, id, idx)
                    THEN rewritten \cup {<<id, idx>>}
                    ELSE rewritten
    /\ UNCHANGED <<cfg, chunkerVars, last_progress, machineVars, bootVars, stop_event, callerVars, job_queue,
                   current_job, model_lock, pause_event, db_jobs, w,
                   engine_busy, signals, used, histVars>>

StoreInit ==
    /\ cfg = [scenario |-> "store", has_db |-> TRUE]
    /\ Constructed

StoreNext ==
    \/ store_add_job
    \/ \E id \in 1..MaxStoreJobs, idx \in 0..MaxChunks,
          text \in ChunkTexts : store_add_chunk(id, idx, text)

StoreSpec == StoreInit /\ [][StoreNext]_vars

\* C19: storing a chunk again for the same job and chunk index replaces
\* the earlier record: whatever calls were made, get_job_chunks returns every
\* record of the job, in strictly ascending chunk_index order, so at most one
\* record per index
C19_OneChunkPerIndex ==
    \A id \in 1..MaxStoreJobs :
        LET chunks == get_job_chunks(db_chunks, id) IN
        /\ ToSeqSet(chunks) = {c \in db_chunks : c.job_id = id}
        /\ \A i, k \in 1..Len(chunks) :
              i < k => chunks[i].chunk_index < chunks[k].chunk_index

\* a chunk was stored again over an existing record with another text, and
\* the job has records for two indices
C19_Witness ==
    \E p \in rewritten :
        /\ Len(get_job_chunks(db_chunks, p[1])) >= 2
        /\ \E c \in db_chunks :
              c.job_id = p[1] /\ c.chunk_index = p[2] /\ c.text # p[2]

\* C20: when a job that was paused goes on, job_resumed is emitted for it
\* before its next job_progress: every step that reports progress for a job
\* paused earlier finds job_resumed already emitted for that job
C20_ResumedBeforeProgress ==
    [][(/\ w.pc = "progress"
        /\ <<"job_paused", w.job>> \in signals
        /\ <<"job_progress", w.job>> \in signals')
            => <<"job_resumed", w.job>> \in signals]_vars

(* --------------------------- the StateMachine -------------------------- *)

\* transition_to(new_state, error_message): ValueError for ERROR without a
\* message; then, holding self._lock, the check and the assignment.  `ret` is
\* the value the call goes on to return (nothing after the lock changes it).
transition_to(t, new_state, has_message) ==
    /\ cfg.scenario = "machine"
    /\ th[t].pc = "idle"
    /\ LET call == [op |-> "transition_to", new_state |-> new_state,
                    has_message |-> has_message] IN
       IF new_state = ERROR /\ ~has_message
       THEN /\ th' = [th EXCEPT ![t] = call @@ [pc |-> "return",
                                                ret |-> "ValueError"]]
            /\ UNCHANGED current_state
       ELSE IF ~can_transition_to(current_state, new_state)
       THEN /\ th' = [th EXCEPT ![t] = call @@ [pc |-> "return",
                                                ret |-> "False"]]
            /\ UNCHANGED current_state
       ELSE /\ current_state' = new_state
            /\ th' = [th EXCEPT ![t] = call @@ [pc |-> "emit_changed",
                                                ret |-> "True"]]
    /\ UNCHANGED <<cfg, chunkerVars, last_progress, rewritten, bootVars, stop_event, callerVars, job_queue,
                   current_job, model_lock, pause_event, storeVars, w,
                   engine_busy, signals, used, histVars>>

\* a step of a StateMachine call that changes the caller's position only
MachineStep(t, from, to) ==
    /\ th[t].pc = from
    /\ th' = [th EXCEPT ![t].pc = to]
    /\ UNCHANGED <<cfg, chunkerVars, last_progress, current_state, rewritten, bootVars, stop_event,
                   callerVars, job_queue, current_job, model_lock, pause_event,
                   storeVars, w, engine_busy, signals, used, histVars>>

\* self.state_changed.emit(new_state), outside the lock
transition_to_emit_changed(t) ==
    /\ th[t].op = "transition_to"
    /\ MachineStep(t, "emit_changed",
                   IF th[t].new_state = ERROR THEN "emit_error" ELSE "return")

\* self.error_occurred.emit(error_message)
transition_to_emit_error(t) == MachineStep(t, "emit_error", "return")

\* reset(): self._current_state = IDLE under the lock
reset(t) ==
    /\ cfg.scenario = "machine"
    /\ th[t].pc = "idle"
    /\ current_state' = IDLE
    /\ th' = [th EXCEPT ![t] = [pc |-> "emit_changed", op |-> "reset",
                                new_state |-> IDLE, has_message |-> FALSE,
                                ret |-> "None"]]
    /\ UNCHANGED <<cfg, chunkerVars, last_progress, rewritten, bootVars, stop_event, callerVars, job_queue,
                   current_job, model_lock, pause_event, storeVars, w,
                   engine_busy, signals, used, histVars>>

\* reset(): self.state_changed.emit(ApplicationState.IDLE)
reset_emit_changed(t) ==
    /\ th[t].op = "reset"
    /\ MachineStep(t, "emit_changed", "return")

\* is_busy(): reads the state under the lock
call_is_busy(t) ==
    /\ cfg.scenario = "machine"
    /\ th[t].pc = "idle"
    /\ th' = [th EXCEPT ![t] = [pc |-> "return", op |-> "is_busy",
                                new_state |-> IDLE, has_message |-> FALSE,
                                ret |-> IF is_busy(current_state)
                                        THEN "True" ELSE "False"]]
    /\ UNCHANGED <<cfg, chunkerVars, last_progress, current_state, rewritten, bootVars, stop_event,
                   callerVars, job_queue, current_job, model_lock, pause_event,
                   storeVars, w, engine_busy, signals, used, histVars>>

\* the call returns (or raises) to the thread
machine_return(t) ==
    /\ th[t].pc = "return"
    /\ th' = [th EXCEPT ![t] = ThreadIdle]
    /\ UNCHANGED <<cfg, chunkerVars, last_progress, current_state, rewritten, bootVars, stop_event,
                   callerVars, job_queue, current_job, model_lock, pause_event,
                   storeVars, w, engine_busy, signals, used, histVars>>

MachineInit ==
    /\ cfg = [scenario |-> "machine", has_db |-> FALSE]
    /\ Constructed

MachineNext ==
    \E t \in Threads :
        \/ \E new_state \in ApplicationState, has_message \in BOOLEAN :
              transition_to(t, new_state, has_message)
        \/ transition_to_emit_changed(t)
        \/ transition_to_emit_error(t)
        \/ reset(t)
        \/ reset_emit_changed(t)
        \/ call_is_busy(t)
        \/ machine_return(t)

MachineSpec == MachineInit /\ [][MachineNext]_vars

\* thread t enters the locked part of call `op` in this step
MachineCall(t, op) ==
    th[t].pc = "idle" /\ th'[t].pc # "idle" /\ th'[t].op = op

\* the transitions C21 lists for targets other than ERROR
C21_Allowed ==
    [s \in ApplicationState |->
        CASE s = IDLE -> {RECORDING}
          [] s = RECORDING -> {PROCESSING, IDLE}
          [] s = PROCESSING -> {COMPLETED_STATE}
          [] s = COMPLETED_STATE -> {IDLE}
          [] s = ERROR -> {IDLE}]

\* C21: transition_to(target) with target other than ERROR returns True and
\* makes target the current state exactly when the listed transitions allow
\* it from the current state, and otherwise returns False and leaves the state
\* alone; reset() makes the state IDLE; is_busy() is true exactly in RECORDING
\* and PROCESSING.
C21_TransitionTable ==
    [][\A t \in Threads :
        /\ MachineCall(t, "transition_to") /\ th'[t].new_state # ERROR
            => IF th'[t].new_state \in C21_Allowed[current_state]
               THEN th'[t].ret = "True" /\ current_state' = th'[t].new_state
                    /\ current_state' # current_state
               ELSE th'[t].ret = "False" /\ current_state' = current_state
        /\ MachineCall(t, "reset") => current_state' = IDLE
        /\ MachineCall(t, "is_busy")
            => (th'[t].ret = "True"
                    <=> current_state \in {RECORDING, PROCESSING})]_vars

\* one thread was refused COMPLETED -> COMPLETED while another was told the
\* machine is not busy
C21_Witness ==
    \E t, u \in Threads :
        /\ th[t].op = "transition_to" /\ th[t].ret = "False"
        /\ th[t].new_state = COMPLETED_STATE /\ current_state = COMPLETED_STATE
        /\ th[u].op = "is_busy" /\ th[u].ret = "False"

\* C22: transition_to(ERROR, message) returns True and enters ERROR from
\* IDLE, RECORDING, PROCESSING and COMPLETED; in ERROR it returns False and
\* the state stays ERROR.
C22_ErrorFromErrorRejected ==
    [][\A t \in Threads :
        MachineCall(t, "transition_to") /\ th'[t].new_state = ERROR
                /\ th'[t].has_message
            => /\ current_state' = ERROR
               /\ th'[t].ret = IF current_state = ERROR THEN "False"
                               ELSE "True"]_vars

\* a HIGH job is in the queue, or the worker has taken one and has not yet
\* set pause_event again after it
HighPendingOrRunning ==
    \/ \E j \in Queued : jobs[j].priority = HIGH
    \/ w.pc \notin {"get", "stopped"} /\ jobs[w.job].priority = HIGH

\* C23: whenever pause_event is cleared, a HIGH job is waiting in the queue
\* or is with the worker.
C23_ClearedOnlyForHigh == ~pause_event => HighPendingOrRunning

\* the worker re-enqueues the job it paused and releases model_lock
PauseRequeues == w.pc = "requeue" /\ w'.pc # "requeue"

\* number of chunks of job j that the engine has transcribed
ChunksDone(j) ==
    Cardinality({i \in DOMAIN engine_calls[j] : engine_calls[j][i] > 0})

\* C24: when the worker re-enqueues a job it paused at the boundary before
\* chunk k, the job's record is PAUSED with current_chunk_index = k,
\* job_paused was emitted, the job is in the queue once more than before,
\* model_lock is released, and k chunks of the job have been transcribed.
C24_PauseCheckpoint ==
    [][PauseRequeues /\ cfg.has_db =>
        /\ w.job \in DOMAIN db_jobs
        /\ db_jobs[w.job].status = PAUSED
        /\ db_jobs[w.job].current_chunk_index = w.chunk_idx
        /\ <<"job_paused", w.job>> \in signals
        /\ Len(SelectSeq(job_queue', LAMBDA q : q = w.job))
              = Len(SelectSeq(job_queue, LAMBDA q : q = w.job)) + 1
        /\ ~model_lock'
        /\ ChunksDone(w.job) = w.chunk_idx]_vars

\* C25: for every record with status PAUSED, the chunk indices stored for
\* the job are exactly 0 .. current_chunk_index - 1.
C25_PausedPrefixStored ==
    \A id \in DOMAIN db_jobs :
        db_jobs[id].status = PAUSED
            => {c.chunk_index : c \in ToSeqSet(get_job_chunks(db_chunks, id))}
                  = 0..(db_jobs[id].current_chunk_index - 1)

\* C26: whenever the worker is outside the processing of a job (clearing
\* current_job, waiting for or taking the next job, or stopped), model_lock
\* is not held.
C26_LockFreeAtDequeue ==
    w.pc \in {"clear_current", "get", "skip_check", "stopped"} => ~model_lock

\* the worker waits for the next job after one job failed and another
\* paused and went back to the queue
C26_Witness ==
    /\ w.pc = "get"
    /\ \E j \in Queued : jobs[j].status = PAUSED
    /\ \E j \in JobIds : jobs[j].status = FAILED

\* a step of the worker on the pause path: from the cleared pause_event seen
\* at a boundary to the return of _process_job
PauseStep ==
    /\ w'.pc # w.pc
    /\ \/ w.pc = "boundary" /\ w'.pc = "pause_persist"
       \/ w.pc \in {"pause_persist", "requeue"}

\* C27: no step of a pause makes the job FAILED, gives it an error_message,
\* emits job_failed for it or enters the failure handler (which calls
\* on_error).
C27_PauseIsNotFailure ==
    [][PauseStep =>
        /\ jobs'[w.job].status # FAILED
        /\ jobs'[w.job].error_message = ""
        /\ <<"job_failed", w.job>> \notin signals'
        /\ w'.pc \notin {"fail", "persist_failed"}]_vars

\* the worker has just paused a job: it is back in the queue as PAUSED and
\* job_paused was emitted
C27_Witness ==
    /\ w.pc = "clear_current"
    /\ w.job \in Queued
    /\ jobs[w.job].status = PAUSED
    /\ <<"job_paused", w.job>> \in signals

\* C28: with a store attached, a file job does not become COMPLETED with a
\* chunk record missing: a chunk write that failed has made the job FAILED
\* instead (every chunk the worker transcribes is written, so a missing
\* record is a write that failed).
C28_NoCompletedWithFailedWrite ==
    \A j \in JobIds :
        cfg.has_db /\ IsFile(j) /\ jobs[j].status = COMPLETED
            => \A i \in 0..(TotalChunks(jobs[j].audio_len) - 1) :
                  HasChunk(db_chunks, j, i)

\* C29: every record of transcription_jobs has
\* completed_chunks <= total_chunks.
C29_CompletedWithinTotal ==
    \A id \in DOMAIN db_jobs :
        db_jobs[id].completed_chunks <= db_jobs[id].total_chunks

\* C30: a job submitted by submit_ptt_job is never PAUSED, in memory or in
\* its record, is put on the queue once only, has at most one call of the
\* engine, exactly one when it is COMPLETED, and leaves RUNNING only for a
\* terminal status.
C30_PttRunsInOneCall ==
    /\ [](\A j \in JobIds : jobs[j].is_ptt =>
            /\ jobs[j].status # PAUSED
            /\ j \in DOMAIN db_jobs => db_jobs[j].status # PAUSED
            /\ Len(SelectSeq(queue_order, LAMBDA q : q = j)) <= 1
            /\ \A i \in DOMAIN engine_calls[j] : engine_calls[j][i] <= 1
            /\ jobs[j].status = COMPLETED => ChunksDone(j) = 1)
    /\ [][\A j \in JobIds :
            jobs[j].is_ptt /\ jobs[j].status = RUNNING
                /\ j \in DOMAIN jobs' /\ jobs'[j].status # RUNNING
                /\ used'.restarts = used.restarts
            => jobs'[j].status \in Terminal]_vars

\* the engine is transcribing a PTT job while pause_event is cleared
C30_Witness ==
    /\ w.pc = "engine"
    /\ jobs[w.job].is_ptt
    /\ jobs[w.job].status = RUNNING
    /\ ~pause_event

\* C31: a job record leaves the store only with a status that is COMPLETED,
\* FAILED or CANCELLED as the scheduler writes them, and then none of its
\* chunks stays; a chunk leaves the store only with such a record.
C31_SweepsOnlyTerminal ==
    [][/\ \A id \in DOMAIN db_jobs \ DOMAIN db_jobs' :
            /\ db_jobs[id].status \in Terminal
            /\ \A c \in db_chunks' : c.job_id # id
       /\ \A c \in db_chunks :
            ~HasChunk(db_chunks', c.job_id, c.chunk_index)
                => /\ c.job_id \in DOMAIN db_jobs
                   /\ db_jobs[c.job_id].status \in Terminal]_vars

\* the step of the worker loop's own except clause
LoopErrorHandled == w.pc = "loop_error" /\ w'.pc # "loop_error"

\* C32: when an exception has escaped _process_job, the loop's handler marks
\* the job taken in this iteration FAILED with a message starting with
\* "Queue error", emits job_failed for it, leaves every other job as it is,
\* and the worker goes back to waiting for the next job.
C32_LoopSurvivesEscape ==
    [][LoopErrorHandled =>
        /\ jobs'[w.job].status = FAILED
        /\ jobs'[w.job].error_message = "Queue error"
        /\ <<"job_failed", w.job>> \in signals'
        /\ \A j \in DOMAIN jobs : j # w.job => jobs'[j] = jobs[j]
        /\ w'.pc = "get"]_vars

\* after the loop's handler ran for one job, the worker is processing
\* another one
C32_Witness ==
    /\ Processing
    /\ jobs[w.job].status = RUNNING
    /\ \E j \in JobIds : j # w.job /\ jobs[j].error_message = "Queue error"

\* C33: without a Job Store, a job that was paused at the boundary before
\* chunk k does not transcribe any of the chunks 0..k-1 again: no chunk of a
\* job is sent to the engine twice.
C33_ResumeWithoutStore ==
    ~cfg.has_db =>
        \A j \in JobIds : \A i \in DOMAIN engine_calls[j] :
            engine_calls[j][i] <= 1

\* ---------------------------------------------------------------------------
\* The chunker of _transcribe_file (l.478-497), one loop iteration per step.
\* The audio is a whole number of seconds long, so that the divisions by the
\* sample rate of l.487-488 are exact and start_time / end_time are integers.
\* ---------------------------------------------------------------------------

MaxSeconds == 75

LoadedLengths == {s * SAMPLE_RATE : s \in 0..MaxSeconds}

\* len(audio[i:i + CHUNK_SIZE]): a slice stops at the end of the array
SliceLen_Unclamped(i, len) == CHUNK_SIZE

SliceLen(i, len) == IF i + CHUNK_SIZE <= len THEN CHUNK_SIZE ELSE len - i

\* the loop variable of `for i in range(0, len(audio), CHUNK_SIZE)`
LoopIndex == Len(chunk_list) * CHUNK_SIZE

\* one iteration of the loop, l.485-494
chunker_iteration ==
    /\ cfg.scenario = "chunker"
    /\ LoopIndex < audio
    /\ chunk_list' = Append(chunk_list,
           [first      |-> LoopIndex,
            size       |-> SliceLen(LoopIndex, audio),
            start_time |-> LoopIndex \div SAMPLE_RATE,
            end_time   |-> (LoopIndex + SliceLen(LoopIndex, audio)) \div SAMPLE_RATE,
            index      |-> Len(chunk_list)])
    /\ UNCHANGED <<cfg, audio, last_progress, machineVars, rewritten, bootVars, stop_event, callerVars,
                   job_queue, current_job, model_lock, pause_event, storeVars, w,
                   engine_busy, signals, used, histVars>>

ChunkerInit ==
    /\ cfg = [scenario |-> "chunker", has_db |-> FALSE]
    /\ audio \in LoadedLengths
    /\ chunk_list = <<>>
    /\ session_base = 0
    /\ restore_pending = <<>>
    /\ jobs = <<>>
    /\ submit_pc = <<>>
    /\ job_queue = <<>>
    /\ current_job = 0
    /\ model_lock = FALSE
    /\ pause_event = TRUE
    /\ stop_event = FALSE
    /\ db_jobs = <<>>
    /\ db_chunks = {}
    /\ w = WorkerIdle
    /\ engine_busy = 0
    /\ signals = {}
    /\ used = [cancels |-> 0, faults |-> 0, retries |-> 0, restarts |-> 0]
    /\ engine_calls = <<>>
    /\ queue_order = <<>>
    /\ high_at_pause = <<>>
    /\ yield_owed = {}
    /\ cancel_returned = {}
    /\ cancel_observed = {}
    /\ cancel_queued = {}
    /\ origin = <<>>
    /\ raised = {}
    /\ rewritten = {}
    /\ last_progress = <<>>
    /\ current_state = IDLE
    /\ th = [t \in Threads |-> ThreadIdle]

ChunkerSpec == ChunkerInit /\ [][chunker_iteration]_vars

Ceil(a, b) == (a + b - 1) \div b

Min(a, b) == IF a <= b THEN a ELSE b

ChunkerDone == cfg.scenario = "chunker" /\ LoopIndex >= audio

\* C34: the chunker splits L samples at window W into ceil(L / W) chunks that
\* are numbered from 0, chunk i covering the samples [i*W, min((i+1)*W, L));
\* the chunks are contiguous, do not overlap and cover the whole audio, only
\* the last one may be shorter than W, and start_time / end_time are the
\* absolute offsets of those samples in seconds.
C34_ChunksTileAudio ==
    /\ cfg.scenario = "chunker" =>
         \A n \in DOMAIN chunk_list :
            /\ chunk_list[n].index = n - 1
            /\ chunk_list[n].first = (n - 1) * CHUNK_SIZE
            /\ chunk_list[n].first + chunk_list[n].size = Min(n * CHUNK_SIZE, audio)
            /\ chunk_list[n].size > 0
            /\ chunk_list[n].start_time * SAMPLE_RATE = chunk_list[n].first
            /\ chunk_list[n].end_time * SAMPLE_RATE
                   = chunk_list[n].first + chunk_list[n].size
            /\ n > 1 => chunk_list[n].first
                            = chunk_list[n - 1].first + chunk_list[n - 1].size
            /\ n < Len(chunk_list) => chunk_list[n].size = CHUNK_SIZE
    /\ ChunkerDone =>
         /\ Len(chunk_list) = Ceil(audio, CHUNK_SIZE)
         /\ Len(chunk_list) = TotalChunks(audio)
         /\ audio > 0 => /\ chunk_list[1].first = 0
                         /\ chunk_list[Len(chunk_list)].first
                                + chunk_list[Len(chunk_list)].size = audio

\* 75 s at 30 s windows: [0, 30), [30, 60), [60, 75)
C34_Witness ==
    /\ ChunkerDone
    /\ audio = 75 * SAMPLE_RATE
    /\ [n \in DOMAIN chunk_list |-> <<chunk_list[n].start_time, chunk_list[n].end_time>>]
           = << <<0, 30>>, <<30, 60>>, <<60, 75>> >>

\* rows of jobs that have not reached a terminal status
Unfinished(rows) == {id \in DOMAIN rows : rows[id].status \notin Terminal}

\* C35: while a job goes through its RUNNING and PAUSED phases, its persisted
\* completed_chunks and current_chunk_index never decrease, and the
\* percentages of its successive job_progress events never decrease.
C35_ProgressNeverDecreases ==
    [][/\ \A id \in Unfinished(db_jobs) \cap DOMAIN db_jobs' :
            /\ db_jobs'[id].completed_chunks >= db_jobs[id].completed_chunks
            /\ db_jobs'[id].current_chunk_index >= db_jobs[id].current_chunk_index
       /\ \A j \in DOMAIN last_progress :
            last_progress'[j] >= last_progress[j]]_vars

TerminalEvents == {"job_completed", "job_failed", "job_cancelled"}

\* C36: at most one terminal event (job_completed, job_failed or
\* job_cancelled) is emitted for a job.
C36_OneTerminalEvent ==
    \A j \in JobIds :
        Cardinality({e \in TerminalEvents : <<e, j>> \in signals}) <= 1

\* nothing is queued or in a submit call, and the worker waits for a job
Quiescent ==
    /\ job_queue = <<>>
    /\ InCall = {}
    /\ restore_pending = <<>>
    /\ w.pc = "get"
    /\ ~stop_event

\* C37: whenever the queue is empty, the worker is idle and no store write
\* has failed, every job's record exists and has a terminal status equal to
\* the job's in-memory status.
C37_RecordsSettled ==
    (cfg.has_db /\ Quiescent /\ used.faults = 0) =>
        \A j \in JobIds :
            /\ j \in DOMAIN db_jobs
            /\ db_jobs[j].status \in Terminal
            /\ db_jobs[j].status = jobs[j].status

\* C38: a job's PENDING record is written before the worker can persist a
\* status for it: the record exists whenever the worker persists RUNNING,
\* COMPLETED or FAILED, and no record is PENDING once the worker has set the
\* job RUNNING.
C38_RecordBeforeWorker ==
    /\ (cfg.has_db /\ w.pc \in {"persist_running", "persist_completed", "persist_failed"})
           => w.job \in DOMAIN db_jobs
    /\ \A j \in JobIds :
           (j \in DOMAIN db_jobs /\ db_jobs[j].status = PENDING)
               => jobs[j].status = PENDING

\* the records get_pending_jobs selects now
SelectedForRecovery ==
    {get_pending_jobs(db_jobs)[i] : i \in DOMAIN get_pending_jobs(db_jobs)}

\* jobs of this process that _restore_pending_jobs submitted for record r
RecoveredFrom(r) ==
    {j \in JobIds : origin[j].by = "restore" /\ origin[j].row = r}

\* C39: startup recovery does not multiply work: a recovered record yields
\* at most one queue entry, and once the recovered work has completed the
\* record is no longer selected by get_pending_jobs.
C39_RecoveryDoesNotMultiply ==
    \A r \in DOMAIN db_jobs :
        /\ Cardinality(RecoveredFrom(r)) <= 1
        /\ \A j \in RecoveredFrom(r) :
               (jobs[j].status = COMPLETED /\ w.pc = "get")
                   => r \notin SelectedForRecovery

====
